---- MODULE Spec2Model ----
(***************************************************************************)
(* Model of clip.py: the Twitch clip monitor.  One sequential process      *)
(* (main) acquires a token, resolves the broadcaster id, primes the set of *)
(* already known clip ids and then polls forever, notifying a Discord      *)
(* webhook about every clip id that is not yet in sent_clip_ids.           *)
(*                                                                         *)
(* The environment is the three Twitch endpoints and the webhook.  Every   *)
(* HTTP request has a nondeterministic outcome:                            *)
(*   "ok"           2xx with a well formed body                            *)
(*   "unauthorized" status 401                                             *)
(*   "http_error"   any other non-2xx status (raise_for_status raises      *)
(*                  HTTPError, a RequestException, with response bound)    *)
(*   "transport"    the request call itself raises a RequestException      *)
(*                  (ConnectionError, Timeout): the local variable         *)
(*                  `response` is never assigned, so the handler's         *)
(*                  `if response:` raises UnboundLocalError, which is      *)
(*                  neither a RequestException nor a KeyError              *)
(*   "malformed"    2xx whose JSON body lacks the expected field           *)
(*   "no_match"     users endpoint: 2xx with an empty data list            *)
(* A clip record is represented by its id; url and title are read from the *)
(* same record and do not influence control flow.                          *)
(***************************************************************************)
EXTENDS Integers, Sequences, FiniteSets, TLC

\* ---- bounds of the model ----
MaxClips == 3      \* clip ids 1..MaxClips are created upstream over a run
MaxTokens == 2     \* the token endpoint cycles through tokens 1..MaxTokens

\* ---- program constants ----
None == 0          \* Python None (falsy) for tokens and ids
ChannelId == 1     \* data["data"][0]["id"] of the configured channel
PageSize == 20     \* "first": 20

ClipIds == 1..MaxClips
Tokens == 1..MaxTokens

TokenOutcomes == {"ok", "http_error", "transport", "malformed"}
UsersOutcomes == {"ok", "no_match", "http_error", "transport", "malformed"}
ClipsOutcomes == {"ok", "unauthorized", "http_error", "transport", "malformed"}
WebhookOutcomes == {"ok", "http_error", "transport"}

VARIABLES
    pc,                   \* position of the script / of main()
    config,               \* the values imported from config.py
    access_token_cache,   \* global, None or a token
    broadcaster_id_cache, \* global, None or an id
    sent_clip_ids,        \* global set of clip ids
    token,                \* main: token of the initial acquisition
    broadcaster_id,       \* main: resolved id
    current_token,        \* main: token of the current cycle
    clips,                \* main: result of the cycle's fetch
    todo,                 \* main: rest of the iteration over reversed(clips)
    created,              \* upstream: number of clips created so far
    expired,              \* upstream: number of clips that left the lookback window
    lastIssued,           \* token endpoint: last token it issued (None: none)
    notified,             \* history: clip ids ever passed to the Notifier
    renotified,           \* history: some clip id was passed to the Notifier twice
    cycleLog,             \* history: clip ids passed to the Notifier in this cycle, in order
    cycleNotifyFailed,    \* history: a notification failed in this cycle
    sentAtFetch,          \* history: sent_clip_ids when the cycle's fetch returned
    primed,               \* history: ids returned by the priming fetch
    existedAtPriming,     \* history: ids inside the lookback window when Priming ran
    lastFetch,            \* history: trace of the get_recent_clips call that just returned
    tokenStep,            \* history: how main's get_twitch_access_token call of this
                          \*   cycle (or of startup) went: "cached" or its outcome
    cycleRaised,          \* history: an exception reached the loop boundary in this cycle
    startupFailed,        \* history: initial token or channel resolution failed
    clipsRequested        \* history: a clips request was ever sent

vars == <<pc, config, access_token_cache, broadcaster_id_cache, sent_clip_ids, token,
          broadcaster_id, current_token, clips, todo, created, expired,
          lastIssued, notified, renotified, cycleLog, cycleNotifyFailed, sentAtFetch, primed,
          existedAtPriming, lastFetch, tokenStep, cycleRaised, startupFailed,
          clipsRequested>>

\* ---- helpers ----
Range(s) == {s[i] : i \in 1..Len(s)}

Min(a, b) == IF a < b THEN a ELSE b

\* Variant of reversed: iterates the fetch result in its own order.
reversedNoop(s) == s

\* reversed(clips)
reversed(s) == [i \in 1..Len(s) |-> s[Len(s) + 1 - i]]

\* The clips inside the lookback window, newest first: ids expired+1..created.
Upstream == [i \in 1..(created - expired) |-> created + 1 - i]

\* Body of a successful clips response: at most PageSize clips, newest first.
Page(s) == SubSeq(s, 1, Min(Len(s), PageSize))

\* The token endpoint issues a token different from the previous one.
NextToken(last) == (last % MaxTokens) + 1

\* Variant of get_twitch_access_token: the cache is not consulted.
get_twitch_access_token_uncached(cache, last, outcome) ==
    CASE outcome = "ok" ->
           [ret |-> NextToken(last), cache |-> NextToken(last),
            last |-> NextToken(last), raised |-> FALSE, requested |-> TRUE]
      [] outcome = "transport" ->
           [ret |-> None, cache |-> cache, last |-> last,
            raised |-> TRUE, requested |-> TRUE]
      [] OTHER ->
           [ret |-> None, cache |-> cache, last |-> last,
            raised |-> FALSE, requested |-> TRUE]

\* ---- get_twitch_access_token ----
\* ret: returned token or None; raised: an exception escapes the function;
\* requested: the token endpoint was contacted.
get_twitch_access_token(cache, last, outcome) ==
    IF cache # None
    THEN [ret |-> cache, cache |-> cache, last |-> last,
          raised |-> FALSE, requested |-> FALSE]
    ELSE CASE outcome = "ok" ->
                [ret |-> NextToken(last), cache |-> NextToken(last),
                 last |-> NextToken(last), raised |-> FALSE, requested |-> TRUE]
           [] outcome = "transport" ->
                [ret |-> None, cache |-> cache, last |-> last,
                 raised |-> TRUE, requested |-> TRUE]
           [] OTHER ->
                [ret |-> None, cache |-> cache, last |-> last,
                 raised |-> FALSE, requested |-> TRUE]

\* How a call went, for the history: served from the cache, or the outcome
\* of the token exchange it made.
StepOutcome(g, outcome) == IF g.requested THEN outcome ELSE "cached"

TokenFailures == {"http_error", "transport", "malformed"}

\* ---- get_broadcaster_id ----
get_broadcaster_id(cache, access_token, outcome) ==
    IF cache # None
    THEN [ret |-> cache, cache |-> cache, raised |-> FALSE]
    ELSE IF access_token = None
    THEN [ret |-> None, cache |-> cache, raised |-> FALSE]
    ELSE CASE outcome = "ok" ->
                [ret |-> ChannelId, cache |-> ChannelId, raised |-> FALSE]
           [] outcome = "transport" ->
                [ret |-> None, cache |-> cache, raised |-> TRUE]
           [] OTHER ->
                [ret |-> None, cache |-> cache, raised |-> FALSE]

\* Variant of Invalidate: the rejected token stays cached.
InvalidateKeep(cache) == cache

\* access_token_cache = None  (clear the cache to force a re-fetch)
Invalidate(cache) == None

NoFetch ==
    [called |-> FALSE, first |-> "none", refresh |-> "none", second |-> "none",
     result |-> <<>>, raised |-> FALSE, cache |-> None, last |-> None,
     reqs |-> <<>>, tokenReqs |-> 0, invalidations |-> 0]

\* Variant of AfterRetry: a 401 on the retried request clears the cache,
\* exchanges a token and sends the request once more.
AfterRetryAgain(b1, tok, newtok, r2, body) ==
    IF r2 = "unauthorized"
    THEN [b1 EXCEPT !.second = r2,
                    !.reqs = <<tok, newtok, NextToken(newtok)>>,
                    !.invalidations = 2, !.tokenReqs = 2,
                    !.cache = NextToken(newtok), !.last = NextToken(newtok)]
    ELSE [b1 EXCEPT !.second = r2, !.reqs = <<tok, newtok>>,
                    !.result = IF r2 = "ok" THEN body ELSE <<>>]

\* The retried clips request with the new token and what the fetch returns
\* after it: the body of a 2xx, [] for anything else (a 401 included).
AfterRetry(b1, tok, newtok, r2, body) ==
    [b1 EXCEPT !.second = r2, !.reqs = <<tok, newtok>>,
               !.result = IF r2 = "ok" THEN body ELSE <<>>]

\* ---- get_recent_clips ----
\* r1, r2: outcomes of the first and of the retried clips request; t: outcome
\* of the token exchange after a 401; body: the clips a 2xx response carries.
\* reqs is the sequence of tokens of the clips requests that were sent.
get_recent_clips(bid, tok, cache, last, r1, t, r2, body) ==
    IF tok = None \/ bid = None
    THEN [NoFetch EXCEPT !.called = TRUE, !.cache = cache, !.last = last]
    ELSE LET base == [NoFetch EXCEPT !.called = TRUE, !.first = r1,
                                     !.cache = cache, !.last = last,
                                     !.reqs = <<tok>>]
         IN CASE r1 = "transport" ->
                   [base EXCEPT !.raised = TRUE]
              [] r1 = "unauthorized" ->
                   LET g == get_twitch_access_token(Invalidate(cache), last, t)
                       b1 == [base EXCEPT !.refresh = t,
                                          !.cache = g.cache, !.last = g.last,
                                          !.tokenReqs = IF g.requested THEN 1 ELSE 0,
                                          !.invalidations = 1]
                   IN IF g.raised
                      THEN [b1 EXCEPT !.raised = TRUE]
                      ELSE IF g.ret # None
                      THEN AfterRetry(b1, tok, g.ret, r2, body)
                      ELSE b1
              [] r1 = "ok" ->
                   [base EXCEPT !.result = body]
              [] OTHER -> base

\* The request outcomes one call of get_recent_clips can meet: the refresh is
\* consulted only after a 401, the retried request only after a refresh.
FetchScenarios ==
    {<<r1, "none", "none">> : r1 \in ClipsOutcomes \ {"unauthorized"}}
    \cup {<<"unauthorized", t, "none">> : t \in TokenOutcomes \ {"ok"}}
    \cup {<<"unauthorized", "ok", r2>> : r2 \in ClipsOutcomes}

\* ---- send_discord_notification ----
\* raised: an exception escapes to the caller.
send_discord_notification(outcome) ==
    [raised |-> (outcome = "transport"), delivered |-> (outcome = "ok")]

\* Variant of Seed: the priming result is dropped.
SeedNothing(s, cs) == s

\* sent_clip_ids.add(clip['id']) for every clip of the priming fetch
Seed(s, cs) == s \cup Range(cs)

\* Variant of LoopBoundary: an exception of the cycle body ends the process.
LoopBoundaryFatal(raised, normal) == IF raised THEN "crashed" ELSE normal

\* `except Exception` around one cycle's body: the position after the body.
LoopBoundary(raised, normal) == IF raised THEN "sleep" ELSE normal

\* Variant of Add: the set is replaced by the one id.
AddOnly(sent, id) == {id}

\* sent_clip_ids.add(clip['id'])
Add(sent, id) == sent \cup {id}

\* Variant of MarkSent: the ids of all clips still to be processed are added
\* before the Notifier is called for the first of them.
MarkSentBatch(sent, remaining, raised) == sent \cup Range(remaining)

\* send_discord_notification(clip); sent_clip_ids.add(clip['id']) for the
\* first of the remaining clips: the add is skipped when the call raises.
MarkSent(sent, remaining, raised) ==
    IF raised THEN sent ELSE Add(sent, Head(remaining))

\* clip['id'] not in sent_clip_ids
IsNew(id, sent) == id \notin sent

\* ---- the configuration surface and the __main__ guard ----
\* A value is abstracted to: absent (None, empty or 0: falsy), placeholder
\* (a string with "YOUR_" in it, the channel name
\* "target_twitch_channel_name") or valid.
ConfigKeys == {"TWITCH_CLIENT_ID", "TWITCH_CLIENT_SECRET", "TWITCH_CHANNEL_NAME",
               "DISCORD_WEBHOOK_URL", "CHECK_INTERVAL_SECONDS",
               "CLIP_LOOKBACK_MINUTES"}

ConfigValues == {"absent", "placeholder", "valid"}

ValidConfig == [k \in ConfigKeys |-> "valid"]

\* The condition under which the __main__ guard calls main().
ConfigAccepted(c) ==
    /\ \A k \in {"TWITCH_CLIENT_ID", "TWITCH_CLIENT_SECRET",
                 "TWITCH_CHANNEL_NAME", "DISCORD_WEBHOOK_URL"} : c[k] # "absent"
    /\ c["TWITCH_CLIENT_ID"] # "placeholder"
    /\ c["TWITCH_CLIENT_SECRET"] # "placeholder"
    /\ c["DISCORD_WEBHOOK_URL"] # "placeholder"
    /\ c["TWITCH_CHANNEL_NAME"] # "placeholder"

\* ---- initial state: module globals, main() just called ----
Init ==
    /\ pc = "start"
    /\ config = ValidConfig
    /\ access_token_cache = None
    /\ broadcaster_id_cache = None
    /\ sent_clip_ids = {}
    /\ token = None
    /\ broadcaster_id = None
    /\ current_token = None
    /\ clips = <<>>
    /\ todo = <<>>
    /\ created = 0
    /\ expired = 0
    /\ lastIssued = None
    /\ notified = {}
    /\ renotified = FALSE
    /\ cycleLog = <<>>
    /\ cycleNotifyFailed = FALSE
    /\ sentAtFetch = {}
    /\ primed = {}
    /\ existedAtPriming = {}
    /\ lastFetch = NoFetch
    /\ tokenStep = "none"
    /\ cycleRaised = FALSE
    /\ startupFailed = FALSE
    /\ clipsRequested = FALSE

\* ---- initial state of the script: any configuration, guard not yet run ----
BootInit ==
    /\ pc = "boot"
    /\ config \in [ConfigKeys -> ConfigValues]
    /\ access_token_cache = None
    /\ broadcaster_id_cache = None
    /\ sent_clip_ids = {}
    /\ token = None
    /\ broadcaster_id = None
    /\ current_token = None
    /\ clips = <<>>
    /\ todo = <<>>
    /\ created = 0
    /\ expired = 0
    /\ lastIssued = None
    /\ notified = {}
    /\ renotified = FALSE
    /\ cycleLog = <<>>
    /\ cycleNotifyFailed = FALSE
    /\ sentAtFetch = {}
    /\ primed = {}
    /\ existedAtPriming = {}
    /\ lastFetch = NoFetch
    /\ tokenStep = "none"
    /\ cycleRaised = FALSE
    /\ startupFailed = FALSE
    /\ clipsRequested = FALSE

\* ---- if __name__ == "__main__": the guard, then main() ----
Boot ==
    /\ pc = "boot"
    /\ pc' = IF ConfigAccepted(config) THEN "start" ELSE "refused"
    /\ UNCHANGED <<config, tokenStep, access_token_cache, broadcaster_id_cache,
                   sent_clip_ids, token, broadcaster_id, current_token, clips,
                   todo, created, expired, lastIssued, notified, renotified,
                   cycleLog, cycleNotifyFailed, sentAtFetch, primed,
                   existedAtPriming, lastFetch, cycleRaised, startupFailed,
                   clipsRequested>>

\* ---- environment: a clip is published / leaves the lookback window ----
\* The program observes the upstream clip list only through a clips request,
\* so the list's changes since the previous request are taken right before
\* the next one.  A clip that left the window before the priming request was
\* never visible to the program, so clips expire only once Polling runs.
ObservingPcs == {"prime", "poll_fetch"}

CreateClip ==
    /\ pc \in ObservingPcs
    /\ created < MaxClips
    /\ created' = created + 1
    /\ UNCHANGED <<config, tokenStep, pc, access_token_cache, broadcaster_id_cache, sent_clip_ids,
                   token, broadcaster_id, current_token, clips, todo, expired,
                   lastIssued, notified, renotified, cycleLog, cycleNotifyFailed, sentAtFetch,
                   primed, existedAtPriming, lastFetch, cycleRaised,
                   startupFailed, clipsRequested>>

ExpireClip ==
    /\ pc = "poll_fetch"
    /\ expired < created
    /\ expired' = expired + 1
    /\ UNCHANGED <<config, tokenStep, pc, access_token_cache, broadcaster_id_cache, sent_clip_ids,
                   token, broadcaster_id, current_token, clips, todo, created,
                   lastIssued, notified, renotified, cycleLog, cycleNotifyFailed, sentAtFetch,
                   primed, existedAtPriming, lastFetch, cycleRaised,
                   startupFailed, clipsRequested>>

\* ---- main: token = get_twitch_access_token(); if not token: return ----
InitToken ==
    /\ pc = "start"
    /\ \E o \in TokenOutcomes :
         LET g == get_twitch_access_token(access_token_cache, lastIssued, o)
         IN /\ access_token_cache' = g.cache
            /\ lastIssued' = g.last
            /\ tokenStep' = StepOutcome(g, o)
            /\ token' = g.ret
            /\ startupFailed' = (g.raised \/ g.ret = None)
            /\ pc' = IF g.raised THEN "crashed"
                     ELSE IF g.ret = None THEN "exited" ELSE "resolve"
    /\ UNCHANGED <<config, broadcaster_id_cache, sent_clip_ids, broadcaster_id,
                   current_token, clips, todo, created, expired, notified, renotified,
                   cycleLog, cycleNotifyFailed, sentAtFetch, primed, existedAtPriming,
                   lastFetch, cycleRaised, clipsRequested>>

\* ---- main: broadcaster_id = get_broadcaster_id(...); if not: return ----
InitBroadcaster ==
    /\ pc = "resolve"
    /\ \E o \in UsersOutcomes :
         LET g == get_broadcaster_id(broadcaster_id_cache, token, o)
         IN /\ broadcaster_id_cache' = g.cache
            /\ broadcaster_id' = g.ret
            /\ startupFailed' = (g.raised \/ g.ret = None)
            /\ pc' = IF g.raised THEN "crashed"
                     ELSE IF g.ret = None THEN "exited" ELSE "prime"
    /\ UNCHANGED <<config, access_token_cache, sent_clip_ids, token, current_token,
                   clips, todo, created, expired, lastIssued, notified, renotified,
                   cycleLog, cycleNotifyFailed, sentAtFetch, primed, existedAtPriming,
                   lastFetch, cycleRaised, clipsRequested>>
    /\ tokenStep' = "none"

\* ---- main: the initial clip scan that primes sent_clip_ids ----
\* An exception escaping get_recent_clips is not caught here: main() dies.
Prime ==
    /\ pc = "prime"
    /\ \E sc \in FetchScenarios :
         LET f == get_recent_clips(broadcaster_id, token, access_token_cache,
                                   lastIssued, sc[1], sc[2], sc[3], Page(Upstream))
         IN /\ lastFetch' = f
            /\ access_token_cache' = f.cache
            /\ lastIssued' = f.last
            /\ clipsRequested' = (clipsRequested \/ Len(f.reqs) > 0)
            /\ IF f.raised
               THEN /\ pc' = "crashed"
                    /\ UNCHANGED <<sent_clip_ids, primed>>
               ELSE /\ pc' = "poll_token"
                    /\ sent_clip_ids' = Seed(sent_clip_ids, f.result)
                    /\ primed' = Range(f.result)
    /\ existedAtPriming' = Range(Upstream)
    /\ UNCHANGED <<config, tokenStep, broadcaster_id_cache, token, broadcaster_id, current_token,
                   clips, todo, created, expired, notified, renotified, cycleLog,
                   cycleNotifyFailed, sentAtFetch, cycleRaised, startupFailed>>

\* ---- cycle step 1: current_token = get_twitch_access_token() ----
\* No token: sleep(CHECK_INTERVAL_SECONDS); continue.
PollToken ==
    /\ pc = "poll_token"
    /\ \E o \in TokenOutcomes :
         LET g == get_twitch_access_token(access_token_cache, lastIssued, o)
         IN /\ access_token_cache' = g.cache
            /\ lastIssued' = g.last
            /\ tokenStep' = StepOutcome(g, o)
            /\ current_token' = IF g.raised THEN current_token ELSE g.ret
            /\ cycleRaised' = g.raised
            /\ pc' = LoopBoundary(g.raised,
                        IF g.ret = None THEN "skip_sleep" ELSE "poll_fetch")
    /\ cycleLog' = <<>>
    /\ cycleNotifyFailed' = FALSE
    /\ sentAtFetch' = {}
    /\ lastFetch' = NoFetch
    /\ UNCHANGED <<config, broadcaster_id_cache, sent_clip_ids, token, broadcaster_id,
                   clips, todo, created, expired, notified, renotified, primed,
                   existedAtPriming, startupFailed, clipsRequested>>

\* ---- cycle step 2: clips = get_recent_clips(...); if not clips: ... ----
PollFetch ==
    /\ pc = "poll_fetch"
    /\ \E sc \in FetchScenarios :
         LET f == get_recent_clips(broadcaster_id, current_token,
                                   access_token_cache, lastIssued,
                                   sc[1], sc[2], sc[3], Page(Upstream))
         IN /\ lastFetch' = f
            /\ access_token_cache' = f.cache
            /\ lastIssued' = f.last
            /\ clipsRequested' = (clipsRequested \/ Len(f.reqs) > 0)
            /\ cycleRaised' = f.raised
            /\ clips' = IF f.raised THEN clips ELSE f.result
            /\ todo' = IF f.raised THEN <<>> ELSE reversed(f.result)
            /\ pc' = LoopBoundary(f.raised,
                        IF f.result = <<>> THEN "sleep" ELSE "poll_loop")
    /\ sentAtFetch' = sent_clip_ids
    /\ UNCHANGED <<config, tokenStep, broadcaster_id_cache, sent_clip_ids, token, broadcaster_id,
                   current_token, created, expired, notified, renotified, cycleLog,
                   cycleNotifyFailed, primed, existedAtPriming, startupFailed>>

\* ---- one iteration of `for clip in reversed(clips)` ----
PollClip ==
    /\ pc = "poll_loop"
    /\ todo # <<>>
    /\ LET clip == Head(todo)
           rest == Tail(todo)
           after == IF rest = <<>> THEN "sleep" ELSE "poll_loop"
       IN IF IsNew(clip, sent_clip_ids)
          THEN \E o \in WebhookOutcomes :
                 LET n == send_discord_notification(o)
                 IN /\ notified' = notified \cup {clip}
                    /\ renotified' = (renotified \/ clip \in notified)
                    /\ cycleLog' = Append(cycleLog, clip)
                    /\ cycleNotifyFailed' = (cycleNotifyFailed \/ ~n.delivered)
                    /\ cycleRaised' = n.raised
                    /\ sent_clip_ids' = MarkSent(sent_clip_ids, todo, n.raised)
                    /\ todo' = IF n.raised THEN <<>> ELSE rest
                    /\ pc' = LoopBoundary(n.raised, after)
          ELSE /\ todo' = rest
               /\ pc' = after
               /\ UNCHANGED <<notified, renotified, cycleLog, cycleNotifyFailed, cycleRaised,
                              sent_clip_ids>>
    /\ UNCHANGED <<config, access_token_cache, broadcaster_id_cache, token,
                   broadcaster_id, current_token, clips, created, expired,
                   lastIssued, sentAtFetch, primed, existedAtPriming,
                   startupFailed, clipsRequested>>
    /\ lastFetch' = NoFetch
    /\ tokenStep' = "none"

\* ---- time.sleep(CHECK_INTERVAL_SECONDS) at the end of the loop body ----
\* The iteration is over: its locals are dead (each is reassigned before it
\* is read again) and its history is cleared.
IntervalSleep ==
    /\ pc = "sleep"
    /\ pc' = "poll_token"
    /\ current_token' = None
    /\ clips' = <<>>
    /\ cycleLog' = <<>>
    /\ cycleNotifyFailed' = FALSE
    /\ cycleRaised' = FALSE
    /\ sentAtFetch' = {}
    /\ lastFetch' = NoFetch
    /\ UNCHANGED <<config, access_token_cache, broadcaster_id_cache, sent_clip_ids,
                   token, broadcaster_id, todo, created, expired, lastIssued,
                   notified, renotified, primed, existedAtPriming,
                   startupFailed, clipsRequested>>
    /\ tokenStep' = "none"

\* Variant of SkipSleep: no `continue` after the sleep, the loop body goes on.
SkipSleepFallsThrough ==
    /\ pc = "skip_sleep"
    /\ pc' = "poll_fetch"
    /\ UNCHANGED <<config, access_token_cache, broadcaster_id_cache,
                   sent_clip_ids, token, broadcaster_id, current_token, clips,
                   todo, created, expired, lastIssued, notified, renotified,
                   cycleLog, cycleNotifyFailed, sentAtFetch, primed,
                   existedAtPriming, lastFetch, tokenStep, cycleRaised,
                   startupFailed, clipsRequested>>

\* ---- time.sleep(CHECK_INTERVAL_SECONDS); continue  (no token) ----
SkipSleep ==
    /\ pc = "skip_sleep"
    /\ pc' = "poll_token"
    /\ current_token' = None
    /\ clips' = <<>>
    /\ UNCHANGED <<config, access_token_cache, broadcaster_id_cache, sent_clip_ids,
                   token, broadcaster_id, todo, created,
                   expired, lastIssued, notified, renotified, cycleLog,
                   cycleNotifyFailed, sentAtFetch, primed, existedAtPriming,
                   lastFetch, cycleRaised, startupFailed, clipsRequested>>
    /\ tokenStep' = "none"

Next ==
    \/ CreateClip
    \/ ExpireClip
    \/ InitToken
    \/ InitBroadcaster
    \/ Prime
    \/ PollToken
    \/ PollFetch
    \/ PollClip
    \/ IntervalSleep
    \/ SkipSleep

Spec == Init /\ [][Next]_vars

\* The single thread of main() always takes its next step: every external
\* call returns or raises.
MainStep ==
    \/ InitToken
    \/ InitBroadcaster
    \/ Prime
    \/ PollToken
    \/ PollFetch
    \/ PollClip
    \/ IntervalSleep
    \/ SkipSleep

FairSpec == Spec /\ WF_vars(MainStep)

\* The script from its start, up to the end of Initializing.
BootNext ==
    \/ Boot
    \/ InitToken
    \/ InitBroadcaster

BootSpec == BootInit /\ [][BootNext]_vars

TypeOK ==
    /\ pc \in {"boot", "refused", "start", "resolve", "prime", "poll_token", "poll_fetch",
               "poll_loop", "sleep", "skip_sleep", "exited", "crashed"}
    /\ access_token_cache \in Tokens \cup {None}
    /\ broadcaster_id_cache \in {None, ChannelId}
    /\ sent_clip_ids \subseteq ClipIds
    /\ created \in 0..MaxClips
    /\ expired \in 0..created
    /\ lastIssued \in Tokens \cup {None}

\* ======================= properties =======================================

InPolling == pc \in {"poll_token", "poll_fetch", "poll_loop", "sleep", "skip_sleep"}

AtSleep == pc \in {"sleep", "skip_sleep"}

\* The clips of the cycle's fetch result that were not in sent_clip_ids when
\* the fetch returned, in the order of the fetch result.
NewInFetch == SelectSeq(clips, LAMBDA c : c \notin sentAtFetch)

\* C1: no clip id returned by the priming fetch is ever passed to the
\* Notifier in a later Polling cycle.
C1_PrimingSuppressesBacklog == primed \cap notified = {}

\* A cycle fetched every primed clip plus newer ones and notified exactly the
\* newer ones.
C1_Witness ==
    /\ pc = "sleep"
    /\ ~cycleRaised
    /\ Cardinality(primed) >= 2
    /\ primed \subseteq Range(clips)
    /\ cycleLog # <<>>
    /\ Range(cycleLog) = Range(clips) \ primed

\* C2: no clip that was inside the lookback window upstream when Priming ran
\* is ever passed to the Notifier, whatever the outcome of the priming fetch.
C2_NoPreexistingClipNotified == existedAtPriming \cap notified = {}

\* C3: the Notifier is invoked at most once per clip id, and every id for
\* which a notification was attempted is in sent_clip_ids before the next clip
\* is processed.
C3_AtMostOnceAndMarked == ~renotified /\ notified \subseteq sent_clip_ids

\* C4: when a notification fails in a cycle, every new clip of that cycle's
\* fetch result has still been passed to the Notifier when the cycle reaches
\* its interval sleep.
C4_CycleIsolation ==
    (pc = "sleep" /\ cycleNotifyFailed)
        => (Range(clips) \ sentAtFetch) \subseteq Range(cycleLog)

\* C5: within a cycle the Notifier is invoked on the new clips of the fetch
\* result in the reverse of their order in that result (already sent clips
\* are skipped), and a cycle that ends without an exception has delivered all
\* of them.
C5_ChronologicalDelivery ==
    /\ pc \in {"poll_loop", "sleep"} =>
         /\ Len(cycleLog) <= Len(NewInFetch)
         /\ \A i \in 1..Len(cycleLog) :
              cycleLog[i] = NewInFetch[Len(NewInFetch) + 1 - i]
    /\ (pc = "sleep" /\ ~cycleRaised) => Len(cycleLog) = Len(NewInFetch)

\* A newest-first result of three clips, all new, was delivered oldest first.
C5_Witness ==
    /\ pc = "sleep"
    /\ Len(clips) >= 3
    /\ Len(cycleLog) = Len(clips)
    /\ cycleLog[1] < cycleLog[2]
    /\ clips[1] > clips[2]

\* A result with already sent clips in it was delivered without them.
C5_WitnessSkip ==
    /\ pc = "sleep"
    /\ Len(cycleLog) >= 2
    /\ Len(clips) > Len(cycleLog)

\* C6: a fetch whose first clips request gets a 401 and whose token refresh
\* succeeds clears the cache once, retries with the newly issued token,
\* returns the clips of the retried request and leaves the new token cached.
C6_AuthRetrySuccess ==
    (lastFetch.called /\ lastFetch.first = "unauthorized"
                      /\ lastFetch.refresh = "ok") =>
        /\ lastFetch.invalidations = 1
        /\ lastFetch.tokenReqs = 1
        /\ ~lastFetch.raised
        /\ Len(lastFetch.reqs) = 2
        /\ lastFetch.reqs[2] # lastFetch.reqs[1]
        /\ lastFetch.reqs[2] = lastIssued
        /\ access_token_cache = lastIssued
        /\ lastFetch.result =
             IF lastFetch.second = "ok" THEN Page(Upstream) ELSE <<>>
        /\ pc \in {"poll_loop", "sleep"} => clips = lastFetch.result
        /\ pc = "poll_token" => primed = Range(lastFetch.result)

\* A Polling fetch was rejected, refreshed the token and got clips on retry.
C6_Witness ==
    /\ pc = "poll_loop"
    /\ lastFetch.called
    /\ lastFetch.first = "unauthorized"
    /\ lastFetch.refresh = "ok"
    /\ lastFetch.second = "ok"
    /\ Len(clips) >= 2

\* C7: a fetch that gets a 401 and then fails to refresh the token returns an
\* empty sequence, lets no exception escape and sends no second clips request.
C7_AuthRetryExhaustion ==
    (lastFetch.called /\ lastFetch.first = "unauthorized"
        /\ lastFetch.refresh \in {"http_error", "transport", "malformed"}) =>
        /\ lastFetch.result = <<>>
        /\ ~lastFetch.raised
        /\ Len(lastFetch.reqs) = 1
        /\ pc # "crashed"

\* C8: a fetch whose clips request meets a non-401 HTTP error, a transport
\* error or an unparsable body returns an empty sequence and raises nothing,
\* so the process survives it in Priming and in Polling.
C8_FetchNeverFailsCaller ==
    (lastFetch.called
        /\ lastFetch.first \in {"http_error", "transport", "malformed"}) =>
        /\ lastFetch.result = <<>>
        /\ ~lastFetch.raised
        /\ pc # "crashed"

\* C9: once Polling is entered, every cycle reaches its sleep whatever error
\* occurs in it, and every sleep is followed by the start of the next cycle.
C9_PollingNeverTerminates ==
    /\ [](InPolling => <>AtSleep)
    /\ [](AtSleep => <>(pc = "poll_token"))

\* A cycle in which an exception reached the loop boundary is at its sleep.
C9_Witness == pc = "sleep" /\ cycleRaised /\ notified # {}

\* C10: a failed initial token acquisition or channel resolution ends the
\* process before any clips request, Notifier call or change of the dedup
\* set, and the process terminates by itself in no other way.
C10_FatalStartup ==
    /\ startupFailed =>
         /\ pc \in {"exited", "crashed"}
         /\ ~clipsRequested
         /\ notified = {}
         /\ sent_clip_ids = {}
    /\ pc \in {"exited", "crashed"} => startupFailed

\* C11: no step of any run removes an id from sent_clip_ids.
C11_DedupSetMonotone == [][sent_clip_ids \subseteq sent_clip_ids']_vars

\* The set holds ids and has been through a failed notification, a failed
\* fetch with token invalidation and a caught exception.
C11_Witness ==
    /\ pc = "sleep"
    /\ Cardinality(sent_clip_ids) >= 2
    /\ cycleRaised
    /\ access_token_cache = None
    /\ notified \ sent_clip_ids # {}

\* C12: with any of the six configuration values absent or a placeholder the
\* program refuses to start: main() is never entered and no request is sent.
C12_RefusesUnusableConfig ==
    (\E k \in ConfigKeys : config[k] # "valid") => pc \in {"boot", "refused"}

\* C13: one call of get_recent_clips sends at most two clips requests and at
\* most one token exchange and clears the cache at most once; when the
\* retried request is rejected with 401 again, the call returns an empty
\* sequence without a further invalidation or request.
C13_RetriesExactlyOnce ==
    lastFetch.called =>
        /\ Len(lastFetch.reqs) <= 2
        /\ lastFetch.tokenReqs <= 1
        /\ lastFetch.invalidations <= 1
        /\ lastFetch.second = "unauthorized" =>
              /\ lastFetch.result = <<>>
              /\ ~lastFetch.raised
              /\ Len(lastFetch.reqs) = 2
              /\ lastFetch.invalidations = 1
              /\ lastFetch.tokenReqs = 1
              /\ access_token_cache = lastFetch.reqs[2]
              /\ pc \in {"poll_token", "sleep"}

\* A Polling fetch whose retried request was rejected again is at its sleep.
C13_Witness ==
    /\ pc = "sleep"
    /\ lastFetch.called
    /\ lastFetch.second = "unauthorized"
    /\ Upstream # <<>>

\* C14: a Polling cycle whose step 1 obtains no token goes from step 1
\* straight to one sleep and from that sleep to the next cycle's step 1,
\* with no clips request, no Notifier call and the dedup set unchanged.
C14_NoTokenCycleSkips ==
    [][/\ (pc = "poll_token" /\ tokenStep' \in TokenFailures) =>
            /\ pc' \in {"skip_sleep", "sleep"}
            /\ sent_clip_ids' = sent_clip_ids
            /\ notified' = notified
            /\ cycleLog' = <<>>
            /\ ~lastFetch'.called
       /\ (pc \in {"skip_sleep", "sleep"} /\ tokenStep \in TokenFailures) =>
            /\ pc' = "poll_token"
            /\ sent_clip_ids' = sent_clip_ids
            /\ notified' = notified
            /\ cycleLog' = <<>>
            /\ ~lastFetch'.called]_vars

\* A cycle without a token is at its sleep, with clips waiting upstream.
C14_Witness ==
    /\ pc = "skip_sleep"
    /\ tokenStep \in TokenFailures
    /\ sent_clip_ids # {}
    /\ Range(Upstream) \ sent_clip_ids # {}

\* C15: a token exchange that fails on a cache miss (transport failure,
\* non-2xx status, body without access_token) makes the call return None to
\* its caller without raising and leaves the cache absent.
C15_FailedExchangeReturnsNone ==
    tokenStep \in TokenFailures =>
        /\ access_token_cache = None
        /\ pc \in {"exited", "skip_sleep"}
        /\ ~cycleRaised

\* C16: a call with a cached token returns it without contacting the token
\* endpoint, a call contacts the endpoint only when the cache is absent, and
\* the cache goes from present to absent only in a fetch that got a 401.
C16_CacheOnlyInvalidatedBy401 ==
    [][/\ (pc \in {"start", "poll_token"} /\ pc' # pc) =>
            IF access_token_cache # None
            THEN /\ tokenStep' = "cached"
                 /\ current_token' = access_token_cache
                 /\ access_token_cache' = access_token_cache
                 /\ lastIssued' = lastIssued
            ELSE tokenStep' \in TokenOutcomes
       /\ (access_token_cache # None /\ access_token_cache' = None) =>
            /\ lastFetch'.called
            /\ lastFetch'.first = "unauthorized"
            /\ lastFetch'.invalidations = 1]_vars

\* A cycle whose step 1 was served from the cache, after the cache had been
\* invalidated and refilled at least once.
C16_Witness ==
    /\ pc = "poll_fetch"
    /\ tokenStep = "cached"
    /\ current_token = access_token_cache
    /\ access_token_cache # token

\* C17: every id in sent_clip_ids was returned by the priming fetch or has
\* been passed to the Notifier, and when an exception aborts a cycle the new
\* clips of its fetch result that were not attempted are outside the set.
C17_SentWasPrimedOrAttempted ==
    /\ sent_clip_ids \subseteq primed \cup notified
    /\ (pc = "sleep" /\ cycleRaised) =>
         \A c \in Range(clips) \ sentAtFetch :
             c \notin Range(cycleLog) => c \notin sent_clip_ids

\* An exception aborted a cycle after its first notification and left a new
\* clip of the fetch result unattempted.
C17_Witness ==
    /\ pc = "sleep"
    /\ cycleRaised
    /\ Len(cycleLog) = 1
    /\ primed # {}
    /\ \E c \in Range(clips) \ sentAtFetch : c \notin notified

\* From some point on Polling runs, clip c stays in the lookback window, no
\* token exchange of step 1 fails and every fetch has its first request
\* answered with the clips.
RecoveredFor(c) ==
    /\ InPolling
    /\ c \in Range(Upstream)
    /\ tokenStep \notin TokenFailures
    /\ lastFetch.called => lastFetch.first = "ok"

\* C18: once the token endpoint always issues a token and the clips endpoint
\* accepts the most recently issued one, every clip that keeps appearing in
\* the fetch results is eventually in sent_clip_ids.
C18_RecoversAndDelivers ==
    \A c \in ClipIds : (<>[]RecoveredFor(c)) => <>(c \in sent_clip_ids)

\* Token endpoint contacts of the current cycle: by step 1 and by the fetch.
CycleTokenContacts ==
    (IF tokenStep \in TokenOutcomes THEN 1 ELSE 0) + lastFetch.tokenReqs

\* C19: in one Polling cycle the token endpoint is contacted at most twice,
\* and twice only when step 1 of the cycle obtained a token from it and the
\* first clips request, sent with that token, got a 401.
C19_AtMostTwoTokenContacts ==
    InPolling =>
        /\ CycleTokenContacts <= 2
        /\ CycleTokenContacts = 2 =>
              /\ tokenStep = "ok"
              /\ lastFetch.first = "unauthorized"
              /\ lastFetch.reqs[1] = current_token

\* A cycle in which both step 1 and the fetch contacted the token endpoint.
C19_Witness ==
    /\ pc \in {"poll_loop", "sleep"}
    /\ CycleTokenContacts = 2

====
